---- MODULE Spec2Model ----
(***************************************************************************)
(* portascrape: the wait/poll engine (wait) and the options validator      *)
(* (validateOptions).                                                      *)
(*                                                                         *)
(* The repository holds two builds of the library that export `wait`:      *)
(*   part_003  the typed build (validateOptions tests keys with indexOf)   *)
(*   part_002  the untyped build (validateOptions tests keys with includes)*)
(* Their wait engines are line-for-line the same; they differ in the key   *)
(* test of validateOptions and in the rejected timeout value.  `build`     *)
(* records which of the two is loaded.                                     *)
(* The locator $ and the helpers that chain on it are modelled from        *)
(* part_003 for both values of `build`.                                    *)
(*                                                                         *)
(* One wait call is followed from the call to its settlement.  The host    *)
(* supplies the callbacks: the timeout timer, the poll timer or animation  *)
(* frame, and the mutation-observer notification.  The predicate is the    *)
(* caller's function: every evaluation yields a value chosen by the        *)
(* environment (falsy, a truthy value, or an exception).                   *)
(***************************************************************************)
EXTENDS Integers, Sequences, FiniteSets, TLC

VARIABLES build, phase, userOptions, options, thrown, promise, results,
          timeoutId, pollHandles, observer, uncaught, now, calledAt, settledAt,
          caller, doc, notified, mutations,
          heap, waits, timers, timeoutIdVar,
          help, twice

\* the state of one wait
waitVars == <<build, phase, userOptions, options, thrown, promise, results,
              timeoutId, pollHandles, observer, uncaught, now, calledAt, settledAt>>

\* the document and who called wait
domVars == <<caller, doc, notified, mutations>>

\* the objects, waits, host timers and timeoutId variables of two calls in
\* flight together, and the record of two locates made one after the other
twoVars == <<heap, waits, timers, timeoutIdVar, twice>>

\* a helper call ($click, $text, $remove, $table, $tableWithHeaders)
helpVars == <<help>>

vars == <<waitVars, domVars, twoVars, helpVars>>

----------------------------------------------------------------------------
(* Bounds                                                                  *)

\* longest caller-supplied options object (number of keys)
MaxKeys == 2
\* most predicate evaluations followed for one wait
MaxEvals == 4
\* most 1 ms clock steps followed before and after a long clock step
MaxSmallTicks == 2
\* most changes made to the document during one locate
MaxMutations == 1

----------------------------------------------------------------------------
(* Values                                                                  *)

Builds == {"part_002", "part_003"}

Num(n) == [type |-> "number", n |-> n, s |-> ""]
Str(s) == [type |-> "string", n |-> 0, s |-> s]
Re(s) == [type |-> "regexp", n |-> 0, s |-> s]
\* a RegExp with the flag g (marked by n = 1)
ReG(s) == [type |-> "regexp", n |-> 1, s |-> s]
Undefined == [type |-> "undefined", n |-> 0, s |-> ""]

\* var defaultOptions = Object.freeze({ timeout: 10000, polling: "raf" })
defaultOptions ==
  << [k |-> "timeout", v |-> Num(10000)], [k |-> "polling", v |-> Str("raf")] >>

validKeys == <<"timeout", "polling", "exactText", "containsText", "matches">>
textOptions == <<"exactText", "containsText", "matches">>

\* the values a caller passes under each key
ValuesOf(k) ==
  CASE k = "timeout" -> {Num(0), Num(2)}
    [] k = "polling" -> {Str("raf"), Str("mutation"), Num(1)}
    [] k = "exactText" -> {Str("a"), Num(5)}
    [] k = "containsText" -> {Str("a"), Num(5)}
    [] k = "matches" -> {Re("a"), Str("a")}
    [] OTHER -> {Num(1)}

CallerKeys == {"timeout", "polling", "exactText", "containsText", "matches", "foo"}

Entries == UNION {{[k |-> key, v |-> val] : val \in ValuesOf(key)} : key \in CallerKeys}

\* option objects: key/value entries in insertion order, no key twice
OptionObjects ==
  UNION {{o \in [1..n -> Entries] : \A i, j \in 1..n : i # j => o[i].k # o[j].k}
          : n \in 0..MaxKeys}

Keys(o) == {o[i].k : i \in 1..Len(o)}
HasKey(o, key) == key \in Keys(o)
Get(o, key) ==
  IF HasKey(o, key) THEN (CHOOSE e \in {o[i] : i \in 1..Len(o)} : e.k = key).v
  ELSE Undefined

\* Array.prototype.indexOf: zero-based index of the first occurrence, else -1
IndexOf(arr, x) ==
  IF \E i \in 1..Len(arr) : arr[i] = x
  THEN (CHOOSE i \in 1..Len(arr) : arr[i] = x /\ \A j \in 1..(i - 1) : arr[j] # x) - 1
  ELSE -1

\* Object.assign for one source entry: an existing key keeps its place and
\* takes the new value, a new key is appended
AssignEntry(target, e) ==
  IF HasKey(target, e.k)
  THEN [i \in 1..Len(target) |-> IF target[i].k = e.k THEN e ELSE target[i]]
  ELSE Append(target, e)

RECURSIVE AssignFrom(_, _, _)
AssignFrom(target, source, i) ==
  IF i > Len(source) THEN target
  ELSE AssignFrom(AssignEntry(target, source[i]), source, i + 1)

\* Object.assign({}, defaultOptions, options)
ObjectAssign(source) == AssignFrom(AssignFrom(<<>>, defaultOptions, 1), source, 1)

----------------------------------------------------------------------------
(* validateOptions                                                         *)

NoError == [name |-> "none", kind |-> "none", key |-> "", ms |-> 0]
InvalidOption(key) == [name |-> "Error", kind |-> "invalid-option", key |-> key, ms |-> 0]
MustBeString(key) == [name |-> "TypeError", kind |-> "must-be-string", key |-> key, ms |-> 0]
MustBeRegExp(key) == [name |-> "TypeError", kind |-> "must-be-regexp", key |-> key, ms |-> 0]
Conflict == [name |-> "Error", kind |-> "conflicting-matchers", key |-> "", ms |-> 0]
PredicateError == [name |-> "Error", kind |-> "predicate", key |-> "", ms |-> 0]

\* the characters of an option key
KeyChars(key) ==
  CASE key = "timeout" -> <<"t", "i", "m", "e", "o", "u", "t">>
    [] key = "polling" -> <<"p", "o", "l", "l", "i", "n", "g">>
    [] key = "exactText" -> <<"e", "x", "a", "c", "t", "T", "e", "x", "t">>
    [] key = "containsText" -> <<"c", "o", "n", "t", "a", "i", "n", "s", "T", "e", "x", "t">>
    [] key = "matches" -> <<"m", "a", "t", "c", "h", "e", "s">>
    [] OTHER -> <<"f", "o", "o">>

\* /text/.test(key): the key holds the characters t,e,x,t in a row
TextRegExpTest(key) ==
  LET c == KeyChars(key)
  IN \E i \in 1..(Len(c) - 3) : SubSeq(c, i, i + 3) = <<"t", "e", "x", "t">>

\* the test that makes validateOptions throw "Invalid option":
\* validKeys.indexOf(key) >= 0 in part_003, !validKeys.includes(key) in part_002
KeyRejected(b, key) ==
  IF b = "part_003" THEN IndexOf(validKeys, key) >= 0
  ELSE ~(IndexOf(validKeys, key) >= 0)

RECURSIVE validateFrom(_, _, _, _)
validateFrom(b, o, i, providedTextOptions) ==
  IF i > Len(o) THEN NoError
  ELSE
    LET key == o[i].k
        val == o[i].v
        isText == IndexOf(textOptions, key) >= 0
        provided == IF isText THEN providedTextOptions + 1 ELSE providedTextOptions
    IN IF KeyRejected(b, key) THEN InvalidOption(key)
       ELSE IF isText /\ TextRegExpTest(key) /\ val.type # "string" THEN MustBeString(key)
       ELSE IF isText /\ key = "matches" /\ val.type # "regexp" THEN MustBeRegExp(key)
       ELSE IF provided > 1 THEN Conflict
       ELSE validateFrom(b, o, i + 1, provided)

\* the error validateOptions throws, NoError when it returns
validateOptions(b, o) == validateFrom(b, o, 1, 0)

----------------------------------------------------------------------------
(* The wait engine                                                         *)

Falsy == "falsy"
Throws == "throw"
\* the elements a document can hold, e1 before e2 in document order
ElementIds == <<"e1", "e2">>
\* truthy results: the values of a caller's predicate, and elements
Truthy == {"v1", "v2"} \cup {ElementIds[i] : i \in 1..Len(ElementIds)}
\* what one evaluation of a caller's predicate can do
Outcomes == {Falsy, Throws, "v1", "v2"}

NoPromise == [state |-> "none", value |-> "", error |-> NoError]
Pending == [state |-> "pending", value |-> "", error |-> NoError]

\* a resolve that overwrites an outcome already reached
resolveAgain(p, result) == [state |-> "resolved", value |-> result, error |-> NoError]

\* a resolve handed the falsy result of the initial check
resolveFalsy(p, result) ==
  IF p.state = "pending" THEN [state |-> "resolved", value |-> Falsy, error |-> NoError]
  ELSE p

\* resolve(result): settles a pending promise, no effect on a settled one
resolve(p, result) ==
  IF p.state = "pending" THEN [state |-> "resolved", value |-> result, error |-> NoError]
  ELSE p

\* reject(error): settles a pending promise, no effect on a settled one
reject(p, error) ==
  IF p.state = "pending" THEN [state |-> "rejected", value |-> "", error |-> error]
  ELSE p

\* the value the timeout callback rejects with
\* the truthiness of an option value
IsTruthy(v) ==
  \/ v.type = "regexp"
  \/ v.type = "string" /\ v.s # ""
  \/ v.type = "number" /\ v.n # 0

\* the number a value is converted to by `> 0` and by setTimeout: a number
\* is itself, "" is 0, the string "2" is 2, any other value here is NaN
ToNumber(v) ==
  CASE v.type = "number" -> [nan |-> FALSE, n |-> v.n]
    [] v.type = "string" /\ v.s = "" -> [nan |-> FALSE, n |-> 0]
    [] v.type = "string" /\ v.s = "2" -> [nan |-> FALSE, n |-> 2]
    [] OTHER -> [nan |-> TRUE, n |-> 0]

TimeoutError(b, o) ==
  [name |-> IF b = "part_003" THEN "Error" ELSE "String",
   kind |-> "timeout", key |-> "", ms |-> ToNumber(Get(o, "timeout")).n]

NoTimer == [state |-> "unset", at |-> 0]
\* no poll callback is scheduled
NoPoll == {}

\* a timeout armed whatever the number is
TimeoutAlways(o) == Get(o, "timeout").type = "number"

\* options.timeout && options.timeout > 0
TimeoutWanted(o) ==
  LET t == Get(o, "timeout") IN IsTruthy(t) /\ ~ToNumber(t).nan /\ ToNumber(t).n > 0

\* setTimeout(function () { reject(error) }, options.timeout)
ArmTimeout(o, t) ==
  IF TimeoutWanted(o) THEN [state |-> "armed", at |-> t + ToNumber(Get(o, "timeout")).n]
  ELSE NoTimer

\* a clearTimeout that cancels nothing
clearTimeoutNothing(tm) == tm

\* clearTimeout(timeoutId): cancels an armed timer, no effect otherwise
clearTimeout(tm) == IF tm.state = "armed" THEN [state |-> "cleared", at |-> tm.at] ELSE tm

\* a poll that asks for a timer and for an animation frame as well
SchedulePollBoth(o, t) ==
  {[kind |-> "timeout", at |-> t + Get(o, "polling").n], [kind |-> "raf", at |-> t]}

\* a poll that always asks for the next animation frame
SchedulePollFrameOnly(o, t) == {[kind |-> "raf", at |-> t]}

\* the callbacks poll() schedules after a falsy evaluation:
\* setTimeout(poll, options.polling) when polling is a number, else
\* requestAnimationFrame(poll)
SchedulePoll(o, t) ==
  IF Get(o, "polling").type = "number"
  THEN {[kind |-> "timeout", at |-> t + Get(o, "polling").n]}
  ELSE {[kind |-> "raf", at |-> t]}

\* a strategy choice that never takes the observer branch
MutationModeNever(o) == FALSE

\* options.polling === "mutation"
MutationMode(o) == Get(o, "polling") = Str("mutation")

Settle(p, t, old) == IF p.state # "pending" /\ old = -1 THEN t ELSE old

\* values a helper hands back: a string, null, undefined
JsString(t) == [type |-> "string", chars |-> t]
JsNull == [type |-> "null", chars |-> <<>>]
JsUndefined == [type |-> "undefined", chars |-> <<>>]

\* the state of a helper: which one was called, the row nodes under the
\* element it will find, the promise it returned and what that promise
\* settled with (an element, a text, table data, records, or an error), and
\* the elements whose click() ran
NoHelp ==
  [call |-> "none", rows |-> <<>>, state |-> "none", element |-> "", text |-> JsUndefined,
   tableData |-> <<>>, records |-> <<>>, error |-> NoError, clicks |-> <<>>]

\* two locates in succession: which of the two is running, the promise of
\* the first once it has been awaited, the options object passed to both,
\* and the lastIndex of the RegExp that object holds
NoTwice == [call |-> 1, first |-> NoPromise, o |-> <<>>, lastIndex |-> 0]

\* the two calls of wait followed side by side
WaitIds == {"A", "B"}

\* references to objects: the shared defaultOptions, the options object a
\* caller passes, and the object a call makes with {}
DefaultsRef == [kind |-> "defaults", of |-> ""]
CallerRef(i) == [kind |-> "caller", of |-> i]
MergedRef(i) == [kind |-> "merged", of |-> i]
Refs == {DefaultsRef} \cup {CallerRef(i) : i \in WaitIds} \cup {MergedRef(i) : i \in WaitIds}

\* the state of a call that has not been made: the parameter options still
\* refers to the caller's object
IdleWait(i, o) ==
  [phase |-> "idle", given |-> o, options |-> CallerRef(i), thrown |-> NoError,
   promise |-> NoPromise, results |-> <<>>, pollHandles |-> NoPoll, observer |-> "none"]

\* var timeoutId; before any assignment
NoTimeoutId == "undefined"

NoHeap == [r \in Refs |-> IF r = DefaultsRef THEN defaultOptions ELSE <<>>]
NoWaits == [i \in WaitIds |-> IdleWait(i, <<>>)]
NoTimers == [i \in WaitIds |-> NoTimer]
NoTimeoutIds == [i \in WaitIds |-> NoTimeoutId]

Init ==
  /\ build \in Builds
  /\ phase = "idle"
  /\ userOptions = <<>>
  /\ options = <<>>
  /\ thrown = NoError
  /\ promise = NoPromise
  /\ results = <<>>
  /\ timeoutId = NoTimer
  /\ pollHandles = NoPoll
  /\ observer = "none"
  /\ uncaught = 0
  /\ now = 0
  /\ calledAt = -1
  /\ settledAt = -1
  /\ caller = "wait"
  /\ doc = <<>>
  /\ notified = FALSE
  /\ mutations = 0
  /\ heap = NoHeap
  /\ waits = NoWaits
  /\ timers = NoTimers
  /\ timeoutIdVar = NoTimeoutIds
  /\ twice = NoTwice
  /\ help = NoHelp

\* a wait that evaluates the predicate before it validates the options
CallThrowsLate(o) ==
  /\ phase = "idle"
  /\ validateOptions(build, ObjectAssign(o)) # NoError
  /\ phase' = "threw"
  /\ userOptions' = o
  /\ options' = ObjectAssign(o)
  /\ thrown' = validateOptions(build, ObjectAssign(o))
  /\ calledAt' = now
  /\ results' = <<Falsy>>
  /\ timeoutId' = ArmTimeout(ObjectAssign(o), now)
  /\ UNCHANGED <<build, promise, pollHandles, observer, uncaught, now, settledAt>>

\* wait(fn, options), validation failed: the call throws
CallThrows(o) ==
  /\ phase = "idle"
  /\ validateOptions(build, ObjectAssign(o)) # NoError
  /\ phase' = "threw"
  /\ userOptions' = o
  /\ options' = ObjectAssign(o)
  /\ thrown' = validateOptions(build, ObjectAssign(o))
  /\ calledAt' = now
  /\ UNCHANGED <<build, promise, results, timeoutId, pollHandles, observer,
                 uncaught, now, settledAt>>

\* an executor that schedules the first poll() instead of calling it
CallReturnsDeferred(o, r1, r2) ==
  LET merged == ObjectAssign(o)
      mutation == MutationMode(merged)
      p == IF r1 = Throws THEN reject(Pending, PredicateError)
           ELSE IF r1 \in Truthy THEN resolve(Pending, r1)
           ELSE Pending
  IN /\ phase = "idle"
     /\ validateOptions(build, merged) = NoError
     /\ r2 = Falsy
     /\ phase' = "returned"
     /\ userOptions' = o
     /\ options' = merged
     /\ calledAt' = now
     /\ results' = <<r1>>
     /\ promise' = p
     /\ timeoutId' = IF r1 = Falsy THEN ArmTimeout(merged, now) ELSE NoTimer
     /\ observer' = IF r1 = Falsy /\ mutation THEN "connected" ELSE "none"
     /\ pollHandles' = IF r1 = Falsy /\ ~mutation THEN SchedulePoll(merged, now) ELSE NoPoll
     /\ settledAt' = Settle(p, now, settledAt)
     /\ UNCHANGED <<build, thrown, uncaught, now>>

\* wait(fn, options), the promise executor: r1 is the first evaluation of
\* the predicate, r2 the evaluation of the first poll()
CallReturns(o, r1, r2) ==
  LET merged == ObjectAssign(o)
      mutation == MutationMode(merged)
      polled == r1 = Falsy /\ ~mutation
      p == IF r1 = Throws THEN reject(Pending, PredicateError)
           ELSE IF r1 \in Truthy THEN resolve(Pending, r1)
           ELSE IF mutation THEN Pending
           ELSE IF r2 = Throws THEN reject(Pending, PredicateError)
           ELSE IF r2 \in Truthy THEN resolve(Pending, r2)
           ELSE Pending
      armed == IF r1 = Falsy THEN ArmTimeout(merged, now) ELSE NoTimer
  IN /\ phase = "idle"
     /\ validateOptions(build, merged) = NoError
     /\ ~polled => r2 = Falsy
     /\ phase' = "returned"
     /\ userOptions' = o
     /\ options' = merged
     /\ calledAt' = now
     /\ results' = IF polled THEN <<r1, r2>> ELSE <<r1>>
     /\ promise' = p
     /\ timeoutId' = IF polled /\ r2 \in Truthy THEN clearTimeout(armed) ELSE armed
     /\ observer' = IF r1 = Falsy /\ mutation THEN "connected" ELSE "none"
     /\ pollHandles' = IF polled /\ r2 = Falsy THEN SchedulePoll(merged, now) ELSE NoPoll
     /\ settledAt' = Settle(p, now, settledAt)
     /\ UNCHANGED <<build, thrown, uncaught, now>>

\* the timeout timer fires: reject(error)
TimeoutFires ==
  /\ timeoutId.state = "armed"
  /\ now >= timeoutId.at
  /\ timeoutId' = [timeoutId EXCEPT !.state = "fired"]
  /\ promise' = reject(promise, TimeoutError(build, options))
  /\ settledAt' = Settle(promise', now, settledAt)
  /\ UNCHANGED <<build, phase, userOptions, options, thrown, results, pollHandles,
                 observer, uncaught, now, calledAt>>

\* poll() run by the poll timer or the animation frame that holds handle h
Poll(h, r) ==
  /\ h \in pollHandles
  /\ h.kind = "timeout" => now >= h.at
  /\ Len(results) < MaxEvals
  /\ results' = Append(results, r)
  /\ IF r = Throws
     THEN /\ uncaught' = uncaught + 1
          /\ pollHandles' = pollHandles \ {h}
          /\ UNCHANGED <<promise, timeoutId>>
     ELSE IF r \in Truthy
     THEN /\ timeoutId' = clearTimeout(timeoutId)
          /\ promise' = resolve(promise, r)
          /\ pollHandles' = pollHandles \ {h}
          /\ UNCHANGED uncaught
     ELSE /\ pollHandles' = (pollHandles \ {h}) \cup SchedulePoll(options, now)
          /\ UNCHANGED <<promise, timeoutId, uncaught>>
  /\ settledAt' = Settle(promise', now, settledAt)
  /\ UNCHANGED <<build, phase, userOptions, options, thrown, observer, now, calledAt>>

\* the mutation observer's callback, run for one batch of DOM mutations
MutationCallback(r) ==
  /\ observer = "connected"
  /\ Len(results) < MaxEvals
  /\ results' = Append(results, r)
  /\ IF r = Throws
     THEN /\ uncaught' = uncaught + 1
          /\ UNCHANGED <<promise, timeoutId, observer>>
     ELSE IF r \in Truthy
     THEN /\ observer' = "disconnected"
          /\ timeoutId' = clearTimeout(timeoutId)
          /\ promise' = resolve(promise, r)
          /\ UNCHANGED uncaught
     ELSE UNCHANGED <<promise, timeoutId, observer, uncaught>>
  /\ settledAt' = Settle(promise', now, settledAt)
  /\ UNCHANGED <<build, phase, userOptions, options, thrown, pollHandles, now, calledAt>>

\* the clock advances by 1 ms, or by the default timeout
Tick(d) ==
  /\ IF d = 1 THEN now % defaultOptions[1].v.n < MaxSmallTicks
     ELSE now < d
  /\ phase = "idle" => d = 1 /\ now = 0
  /\ now' = now + d
  /\ UNCHANGED <<build, phase, userOptions, options, thrown, promise, results,
                 timeoutId, pollHandles, observer, uncaught, calledAt, settledAt>>

Next ==
  \/ phase = "idle" /\ UNCHANGED <<domVars, twoVars, helpVars>> /\ \E o \in OptionObjects : CallThrows(o)
  \/ phase = "idle" /\ UNCHANGED <<domVars, twoVars, helpVars>>
       /\ \E o \in OptionObjects : \E r1, r2 \in Outcomes : CallReturns(o, r1, r2)
  \/ TimeoutFires /\ UNCHANGED <<domVars, twoVars, helpVars>>
  \/ pollHandles # {} /\ UNCHANGED <<domVars, twoVars, helpVars>>
       /\ \E h \in pollHandles : \E r \in Outcomes : Poll(h, r)
  \/ observer = "connected" /\ UNCHANGED <<domVars, twoVars, helpVars>>
       /\ \E r \in Outcomes : MutationCallback(r)
  \/ UNCHANGED <<domVars, twoVars, helpVars>> /\ \E d \in {1, defaultOptions[1].v.n} : Tick(d)

Spec == Init /\ [][Next]_vars

----------------------------------------------------------------------------
(* The element locator $(selector, options)                                *)
(*                                                                         *)
(* The document is the sequence of its elements in document order.  An     *)
(* element has an identity, a flag telling whether the selector matches    *)
(* it, and the contents of its direct child text nodes.  Text is a         *)
(* sequence of characters.                                                 *)

Space == " "
NoText == <<>>
\* the contents a text node can have: "", " a ", "ab", "b"
TextContents == {NoText, <<Space, "a", Space>>, <<"a", "b">>, <<"b">>}

\* the characters of a string held by an option
Chars(str) == IF str = "" THEN <<>> ELSE IF str = "a" THEN <<"a">> ELSE <<"5">>

\* String(value), the conversion indexOf applies to its argument
ToStringChars(v) == IF v.type = "string" THEN Chars(v.s) ELSE <<"5">>

RECURSIVE TrimStart(_)
TrimStart(t) == IF t # <<>> /\ Head(t) = Space THEN TrimStart(Tail(t)) ELSE t

RECURSIVE TrimEnd(_)
TrimEnd(t) ==
  IF t # <<>> /\ t[Len(t)] = Space THEN TrimEnd(SubSeq(t, 1, Len(t) - 1)) ELSE t

\* String.prototype.trim
Trim(t) == TrimEnd(TrimStart(t))

\* String.prototype.indexOf: zero-based index of the first occurrence of sub
StringIndexOf(t, sub) ==
  LET at == {i \in 1..(Len(t) - Len(sub) + 1) : SubSeq(t, i, i + Len(sub) - 1) = sub}
  IN IF Len(sub) = 0 THEN 0
     ELSE IF at = {} THEN -1
     ELSE (CHOOSE i \in at : \A j \in at : i <= j) - 1

\* RegExp.prototype.test for the patterns /a/, /^a$/ and /^$/
RegExpTest(re, t) ==
  CASE re.s = "a" -> StringIndexOf(t, <<"a">>) > -1
    [] re.s = "^a$" -> t = <<"a">>
    [] OTHER -> t = <<>>

\* child.textContent && child.textContent.trim() === options.exactText
ExactPredicate(o, text) ==
  /\ text # NoText
  /\ Get(o, "exactText").type = "string"
  /\ Trim(text) = Chars(Get(o, "exactText").s)

\* child.textContent && options.containsText &&
\* child.textContent.indexOf(options.containsText) > -1
ContainsPredicate(o, text) ==
  /\ text # NoText
  /\ IsTruthy(Get(o, "containsText"))
  /\ StringIndexOf(text, ToStringChars(Get(o, "containsText"))) > -1

\* child.textContent && options.matches &&
\* options.matches.test(child.textContent.trim())
MatchesPredicate(o, text) ==
  /\ text # NoText
  /\ IsTruthy(Get(o, "matches"))
  /\ RegExpTest(Get(o, "matches"), Trim(text))

\* search(element, predicate): the element when one of its text nodes
\* fulfils the predicate, else null
search(element, predicate) ==
  IF \E j \in 1..Len(element.texts) : predicate[element.texts[j]]
  THEN element.id ELSE Falsy

\* the value of `result` after the three matcher blocks of the loop body
MatchResult(o, element) ==
  LET exact == [text \in TextContents |-> ExactPredicate(o, text)]
      contains == [text \in TextContents |-> ContainsPredicate(o, text)]
      matches == [text \in TextContents |-> MatchesPredicate(o, text)]
      r1 == IF IsTruthy(Get(o, "exactText")) \/ IsTruthy(Get(o, "containsText"))
            THEN search(element, exact) ELSE Falsy
      r2 == IF IsTruthy(Get(o, "containsText")) THEN search(element, contains) ELSE r1
  IN IF IsTruthy(Get(o, "matches")) THEN search(element, matches) ELSE r2

\* a query that returns every element of the document
querySelectorAllAny(d) == d

\* document.querySelectorAll(selector): the matching elements in document order
querySelectorAll(d) == SelectSeq(d, LAMBDA e : e.sel)

\* document.querySelector(selector): the first matching element, else null
querySelector(d) ==
  IF querySelectorAll(d) = <<>> THEN Falsy ELSE Head(querySelectorAll(d)).id

\* the first element of els whose result is truthy, else null
RECURSIVE FirstResult(_, _, _)
FirstResult(o, els, i) ==
  IF i > Len(els) THEN Falsy
  ELSE IF MatchResult(o, els[i]) # Falsy THEN MatchResult(o, els[i])
  ELSE FirstResult(o, els, i + 1)

\* a text search that stops at the first element the selector matches
LocatorFirstOnly(d, o) ==
  IF ~(IsTruthy(Get(o, "exactText")) \/ IsTruthy(Get(o, "containsText"))
       \/ IsTruthy(Get(o, "matches")))
  THEN querySelector(d)
  ELSE IF querySelectorAll(d) = <<>> THEN Falsy
  ELSE MatchResult(o, Head(querySelectorAll(d)))

\* a locator that takes the last matching element when no matcher is set
LocatorLast(d, o) ==
  IF ~(IsTruthy(Get(o, "exactText")) \/ IsTruthy(Get(o, "containsText"))
       \/ IsTruthy(Get(o, "matches")))
  THEN (IF querySelectorAll(d) = <<>> THEN Falsy
        ELSE querySelectorAll(d)[Len(querySelectorAll(d))].id)
  ELSE FirstResult(o, querySelectorAll(d), 1)

\* the predicate $ hands to wait; o is the caller's options object
Locator(d, o) ==
  IF ~(IsTruthy(Get(o, "exactText")) \/ IsTruthy(Get(o, "containsText"))
       \/ IsTruthy(Get(o, "matches")))
  THEN querySelector(d)
  ELSE FirstResult(o, querySelectorAll(d), 1)

\* the elements with identity id: matched by the selector with any text
\* content, or not matched and holding the text " a "
ElementsOf(id) ==
  {[id |-> id, sel |-> TRUE, texts |-> t] :
     t \in {<<>>} \cup {<<c>> : c \in TextContents}}
  \cup {[id |-> id, sel |-> FALSE, texts |-> <<<<Space, "a", Space>>>>]}

\* the documents a locate starts from: at most one element
InitialDocs ==
  {<<>>} \cup {<<e>> : e \in ElementsOf(ElementIds[1]) \cup ElementsOf(ElementIds[2])}

Position(id) == CHOOSE i \in 1..Len(ElementIds) : ElementIds[i] = id
DocIds(d) == {d[i].id : i \in 1..Len(d)}

\* d with element e inserted at its place in document order
InsertElement(d, e) ==
  LET before == SelectSeq(d, LAMBDA x : Position(x.id) < Position(e.id))
      after == SelectSeq(d, LAMBDA x : Position(x.id) > Position(e.id))
  IN before \o <<e>> \o after

\* d without the element id
RemoveElement(d, id) == SelectSeq(d, LAMBDA x : x.id # id)

\* the options objects passed to $
LocateOptions ==
  {t \o pl \o m :
     t \in {<<>>, <<[k |-> "timeout", v |-> Num(2)]>>},
     pl \in {<<>>, <<[k |-> "polling", v |-> Str("mutation")]>>},
     m \in {<<>>,
            <<[k |-> "exactText", v |-> Str("a")]>>,
            <<[k |-> "containsText", v |-> Str("a")]>>,
            <<[k |-> "exactText", v |-> Str("")]>>,
            <<[k |-> "containsText", v |-> Str("")]>>,
            <<[k |-> "matches", v |-> Re("^a$")]>>,
            <<[k |-> "matches", v |-> Re("^$")]>>}}

InitLocate ==
  /\ build \in Builds
  /\ phase = "idle"
  /\ userOptions = <<>>
  /\ options = <<>>
  /\ thrown = NoError
  /\ promise = NoPromise
  /\ results = <<>>
  /\ timeoutId = NoTimer
  /\ pollHandles = NoPoll
  /\ observer = "none"
  /\ uncaught = 0
  /\ now = 0
  /\ calledAt = -1
  /\ settledAt = -1
  /\ caller = "$"
  /\ doc \in InitialDocs
  /\ notified = FALSE
  /\ mutations = 0
  /\ heap = NoHeap
  /\ waits = NoWaits
  /\ timers = NoTimers
  /\ timeoutIdVar = NoTimeoutIds
  /\ twice = NoTwice
  /\ help = NoHelp

\* $(selector, options): wait throws
LocateThrows(o) ==
  /\ CallThrows(o)
  /\ UNCHANGED <<domVars, twoVars, helpVars>>

\* a $ that calls wait without handing its options on
LocateReturnsNoOptions(o) ==
  /\ CallReturns(<<>>, Locator(doc, o), Falsy)
  /\ UNCHANGED <<domVars, twoVars, helpVars>>

\* $(selector, options): wait returns its promise after evaluating the
\* locator predicate once or, in a polling mode, twice
LocateReturns(o) ==
  /\ CallReturns(o, Locator(doc, o), Falsy)
  /\ UNCHANGED <<domVars, twoVars, helpVars>>

\* poll() with the locator predicate
LocatePoll(h) ==
  /\ Poll(h, Locator(doc, userOptions))
  /\ UNCHANGED <<domVars, twoVars, helpVars>>

\* the observer's callback with the locator predicate, run after the
\* document changed
LocateMutationCallback ==
  /\ notified
  /\ MutationCallback(Locator(doc, userOptions))
  /\ notified' = FALSE
  /\ UNCHANGED <<caller, doc, mutations, twoVars, helpVars>>

\* the page inserts or removes an element; a connected observer is notified
DomMutate(d) ==
  /\ phase = "returned"
  /\ mutations < MaxMutations
  /\ d # doc
  /\ doc' = d
  /\ mutations' = mutations + 1
  /\ notified' = (notified \/ observer = "connected")
  /\ UNCHANGED <<caller, waitVars, twoVars, helpVars>>

\* the documents one insertion or removal away from d
MutatedDocs(d) ==
  {RemoveElement(d, id) : id \in DocIds(d)}
  \cup UNION {{InsertElement(d, e) : e \in ElementsOf(ElementIds[i])}
               : i \in {j \in 1..Len(ElementIds) : ElementIds[j] \notin DocIds(d)}}

NextLocate ==
  \/ phase = "idle" /\ \E o \in LocateOptions : LocateThrows(o)
  \/ phase = "idle" /\ \E o \in LocateOptions : LocateReturns(o)
  \/ TimeoutFires /\ UNCHANGED <<domVars, twoVars, helpVars>>
  \/ pollHandles # {} /\ \E h \in pollHandles : LocatePoll(h)
  \/ LocateMutationCallback
  \/ \E d \in MutatedDocs(doc) : DomMutate(d)
  \/ UNCHANGED <<domVars, twoVars, helpVars>> /\ \E d \in {1, defaultOptions[1].v.n} : Tick(d)

SpecLocate == InitLocate /\ [][NextLocate]_vars

----------------------------------------------------------------------------
(* Two calls of wait in flight together                                    *)
(*                                                                         *)
(* Each call has its own options object, promise, poll callbacks, observer *)
(* and, in its executor's closure, its own timeoutId variable.  The host   *)
(* keeps one timeout timer per call that armed one; timers[i] is the timer *)
(* created by call i, and a timeoutId variable holds the id of a timer.    *)

\* the options objects passed by the two callers
TwoOptions ==
  {<<>>,
   <<[k |-> "timeout", v |-> Num(2)]>>,
   <<[k |-> "timeout", v |-> Num(2)], [k |-> "polling", v |-> Str("mutation")]>>,
   <<[k |-> "polling", v |-> Num(1)]>>}

\* the values the predicates of the two callers yield
TwoOutcomes == {Falsy, Throws, "v1"}

\* a merge written into the shared defaults: Object.assign(defaultOptions, options)
AssignTargetDefaults(i) == DefaultsRef

\* the first argument of Object.assign in wait: {} , a new object
AssignTarget(i) == MergedRef(i)

\* one timeoutId variable declared outside wait and used by every call
TimeoutIdScopeShared(i) == "A"

\* the closure that holds call i's timeoutId: var timeoutId is declared in
\* the executor, one variable for each call
TimeoutIdScope(i) == i

\* Object.assign(target, defaultOptions, options) on the heap h for call i
AssignOnHeap(h, i) ==
  [h EXCEPT ![AssignTarget(i)] =
     AssignFrom(AssignFrom(h[AssignTarget(i)], h[DefaultsRef], 1), h[CallerRef(i)], 1)]

\* clearTimeout(timeoutId) where the variable holds id
ClearVia(tm, id) ==
  IF id \in WaitIds THEN [tm EXCEPT ![id] = clearTimeout(tm[id])] ELSE tm

InitTwo ==
  /\ build \in Builds
  /\ phase = "idle"
  /\ userOptions = <<>>
  /\ options = <<>>
  /\ thrown = NoError
  /\ promise = NoPromise
  /\ results = <<>>
  /\ timeoutId = NoTimer
  /\ pollHandles = NoPoll
  /\ observer = "none"
  /\ uncaught = 0
  /\ now = 0
  /\ calledAt = -1
  /\ settledAt = -1
  /\ caller = "wait"
  /\ doc = <<>>
  /\ notified = FALSE
  /\ mutations = 0
  /\ \E oa, ob \in TwoOptions :
       /\ heap = [NoHeap EXCEPT ![CallerRef("A")] = oa, ![CallerRef("B")] = ob]
       /\ waits = [i \in WaitIds |-> IdleWait(i, IF i = "A" THEN oa ELSE ob)]
  /\ timers = NoTimers
  /\ timeoutIdVar = NoTimeoutIds
  /\ twice = NoTwice
  /\ help = NoHelp

\* what the two-call actions leave alone: the single wait and the document
oneVars == <<build, phase, userOptions, options, thrown, promise, results,
             timeoutId, pollHandles, observer, uncaught, calledAt, settledAt, domVars,
             helpVars, twice>>

\* call i of wait(fn, options), validation failed: the call throws
TwoCallThrows(i) ==
  LET h == AssignOnHeap(heap, i)
      err == validateOptions(build, h[AssignTarget(i)])
  IN /\ waits[i].phase = "idle"
     /\ err # NoError
     /\ heap' = h
     /\ waits' = [waits EXCEPT ![i].phase = "threw", ![i].options = AssignTarget(i),
                                ![i].thrown = err]
     /\ UNCHANGED <<timers, timeoutIdVar, now, oneVars>>

\* call i of wait(fn, options), the promise executor: r1 is the first
\* evaluation of the predicate, r2 the evaluation of the first poll()
TwoCallReturns(i, r1, r2) ==
  LET h == AssignOnHeap(heap, i)
      merged == h[AssignTarget(i)]
      mutation == MutationMode(merged)
      polled == r1 = Falsy /\ ~mutation
      p == IF r1 = Throws THEN reject(Pending, PredicateError)
           ELSE IF r1 \in Truthy THEN resolve(Pending, r1)
           ELSE IF mutation THEN Pending
           ELSE IF r2 = Throws THEN reject(Pending, PredicateError)
           ELSE IF r2 \in Truthy THEN resolve(Pending, r2)
           ELSE Pending
      arms == r1 = Falsy /\ TimeoutWanted(merged)
      armed == IF arms THEN [timers EXCEPT ![i] = ArmTimeout(merged, now)] ELSE timers
      ids == IF arms THEN [timeoutIdVar EXCEPT ![TimeoutIdScope(i)] = i] ELSE timeoutIdVar
  IN /\ waits[i].phase = "idle"
     /\ validateOptions(build, merged) = NoError
     /\ ~polled => r2 = Falsy
     /\ heap' = h
     /\ waits' = [waits EXCEPT
          ![i].phase = "returned",
          ![i].options = AssignTarget(i),
          ![i].promise = p,
          ![i].results = IF polled THEN <<r1, r2>> ELSE <<r1>>,
          ![i].observer = IF r1 = Falsy /\ mutation THEN "connected" ELSE "none",
          ![i].pollHandles = IF polled /\ r2 = Falsy THEN SchedulePoll(merged, now) ELSE NoPoll]
     /\ timeoutIdVar' = ids
     /\ timers' = IF polled /\ r2 \in Truthy THEN ClearVia(armed, ids[TimeoutIdScope(i)])
                   ELSE armed
     /\ UNCHANGED <<now, oneVars>>

\* the timeout timer of call i fires: reject(error)
TwoTimeoutFires(i) ==
  /\ timers[i].state = "armed"
  /\ now >= timers[i].at
  /\ timers' = [timers EXCEPT ![i].state = "fired"]
  /\ waits' = [waits EXCEPT
       ![i].promise = reject(waits[i].promise, TimeoutError(build, heap[waits[i].options]))]
  /\ UNCHANGED <<heap, timeoutIdVar, now, oneVars>>

\* poll() of call i, run by the poll timer or animation frame with handle h
TwoPoll(i, h, r) ==
  /\ h \in waits[i].pollHandles
  /\ h.kind = "timeout" => now >= h.at
  /\ Len(waits[i].results) < MaxEvals
  /\ IF r = Throws
     THEN /\ waits' = [waits EXCEPT ![i].results = Append(@, r),
                                     ![i].pollHandles = @ \ {h}]
          /\ UNCHANGED timers
     ELSE IF r \in Truthy
     THEN /\ timers' = ClearVia(timers, timeoutIdVar[TimeoutIdScope(i)])
          /\ waits' = [waits EXCEPT ![i].results = Append(@, r),
                                     ![i].promise = resolve(@, r),
                                     ![i].pollHandles = @ \ {h}]
     ELSE /\ waits' = [waits EXCEPT
               ![i].results = Append(@, r),
               ![i].pollHandles = (@ \ {h}) \cup SchedulePoll(heap[waits[i].options], now)]
          /\ UNCHANGED timers
  /\ UNCHANGED <<heap, timeoutIdVar, now, oneVars>>

\* the callback of call i's mutation observer, run for one batch of mutations
TwoMutationCallback(i, r) ==
  /\ waits[i].observer = "connected"
  /\ Len(waits[i].results) < MaxEvals
  /\ IF r = Throws
     THEN /\ waits' = [waits EXCEPT ![i].results = Append(@, r)]
          /\ UNCHANGED timers
     ELSE IF r \in Truthy
     THEN /\ timers' = ClearVia(timers, timeoutIdVar[TimeoutIdScope(i)])
          /\ waits' = [waits EXCEPT ![i].results = Append(@, r),
                                     ![i].promise = resolve(@, r),
                                     ![i].observer = "disconnected"]
     ELSE /\ waits' = [waits EXCEPT ![i].results = Append(@, r)]
          /\ UNCHANGED timers
  /\ UNCHANGED <<heap, timeoutIdVar, now, oneVars>>

\* the clock advances by 1 ms, or by the default timeout
TwoTick(d) ==
  /\ IF d = 1 THEN now % defaultOptions[1].v.n < MaxSmallTicks
     ELSE now < d
  /\ now' = now + d
  /\ UNCHANGED <<twoVars, oneVars>>

NextTwo ==
  \/ \E i \in WaitIds : TwoCallThrows(i)
  \/ \E i \in WaitIds : waits[i].phase = "idle"
       /\ \E r1, r2 \in TwoOutcomes : TwoCallReturns(i, r1, r2)
  \/ \E i \in WaitIds : TwoTimeoutFires(i)
  \/ \E i \in WaitIds : waits[i].pollHandles # {}
       /\ \E h \in waits[i].pollHandles : \E r \in TwoOutcomes : TwoPoll(i, h, r)
  \/ \E i \in WaitIds : waits[i].observer = "connected"
       /\ \E r \in TwoOutcomes : TwoMutationCallback(i, r)
  \/ \E d \in {1, defaultOptions[1].v.n} : TwoTick(d)

SpecTwo == InitTwo /\ [][NextTwo]_vars

----------------------------------------------------------------------------
(* The helpers $click, $text, $remove, $table and $tableWithHeaders        *)
(*                                                                         *)
(* Each helper calls $ and chains one callback with then().  The callback  *)
(* is modelled from part_003 and runs in the step in which the promise of  *)
(* $ settles.  A row node is the sequence of its cells; a cell has a tag   *)
(* (th or td) and a text content.                                          *)

\* most row nodes under a table element
MaxRows == 3

Cell(tag, text) == [tag |-> tag, text |-> text]

\* the row nodes a table element can hold
TableRows ==
  {<<>>,
   <<Cell("th", <<Space, "a">>), Cell("th", <<"b">>)>>,
   <<Cell("th", <<"b">>), Cell("th", <<"b">>)>>,
   <<Cell("th", <<"b">>), Cell("td", <<Space, "a">>)>>,
   <<Cell("td", <<Space, "a">>), Cell("td", <<"b">>)>>,
   <<Cell("td", NoText), Cell("td", <<Space>>)>>,
   <<Cell("td", <<"b">>)>>}

\* Array.from(tableElement.querySelectorAll("tr")) for each table element
Tables == UNION {[1..n -> TableRows] : n \in 0..MaxRows}

\* Array.from(row.querySelectorAll(tags))
CellsOf(row, tags) == SelectSeq(row, LAMBDA c : c.tag \in tags)

\* cell.textContent && cell.textContent.trim()
TextAndTrim(c) == IF c.text = NoText THEN JsString(NoText) ELSE JsString(Trim(c.text))

\* cell.textContent ? cell.textContent.trim() : null
TextOrNull(c) == IF c.text = NoText THEN JsNull ELSE JsString(Trim(c.text))

\* the callback of $table: rows.map(row => cells.map(text))
table(rows) ==
  [i \in 1..Len(rows) |->
     [j \in 1..Len(CellsOf(rows[i], {"td", "th"})) |->
        TextAndTrim(CellsOf(rows[i], {"td", "th"})[j])]]

\* the header texts of the first row
Headers(rows) ==
  [j \in 1..Len(CellsOf(rows[1], {"th"})) |-> TextAndTrim(CellsOf(rows[1], {"th"})[j])]

\* rowData of one row
RowData(row) == [j \in 1..Len(CellsOf(row, {"td"})) |-> TextOrNull(CellsOf(row, {"td"})[j])]

\* rowObject after headers.forEach: each header text is a key, and a header
\* that occurs again overwrites the value stored before
RowObject(headers, rowData) ==
  [h \in {headers[j].chars : j \in 1..Len(headers)} |->
     LET last == CHOOSE j \in 1..Len(headers) :
                   /\ headers[j].chars = h
                   /\ \A k \in 1..Len(headers) : headers[k].chars = h => k <= j
     IN IF last <= Len(rowData) THEN rowData[last] ELSE JsUndefined]

\* the callback of $tableWithHeaders for an element with at least one row
tableWithHeaders(rows) ==
  [i \in 1..(Len(rows) - 1) |-> RowObject(Headers(rows), RowData(rows[i + 1]))]

\* element.textContent: the text nodes of the element joined
RECURSIVE textContent(_)
textContent(texts) == IF texts = <<>> THEN <<>> ELSE Head(texts) \o textContent(Tail(texts))

\* the element of document d with identity id
ElementOf(d, id) == CHOOSE e \in {d[i] : i \in 1..Len(d)} : e.id = id

\* a click that does not test the element
IsHTMLElementAlways(id) == TRUE

\* element instanceof HTMLElement: e1 is an HTML element, e2 is an element
\* of another namespace (an <svg>), which has no click()
IsHTMLElement(id) == id = ElementIds[1]

\* Error("Element of type " + typeof element + " is unclickable")
Unclickable == [name |-> "Error", kind |-> "unclickable", key |-> "object", ms |-> 0]

\* rows[0] is undefined: reading querySelectorAll of it throws
NoFirstRow == [name |-> "TypeError", kind |-> "undefined-row", key |-> "", ms |-> 0]

\* a then() callback of $tableWithHeaders that reads no header cells when
\* there is no first row
ContinuationNoRows(h, id, d) ==
  CASE h.call = "$click" ->
         IF IsHTMLElement(id)
         THEN [h EXCEPT !.state = "resolved", !.element = id, !.clicks = Append(@, id)]
         ELSE [h EXCEPT !.state = "rejected", !.error = Unclickable]
    [] h.call = "$text" ->
         [h EXCEPT !.state = "resolved", !.text = JsString(textContent(ElementOf(d, id).texts))]
    [] h.call = "$remove" -> [h EXCEPT !.state = "resolved"]
    [] h.call = "$table" -> [h EXCEPT !.state = "resolved", !.tableData = table(h.rows)]
    [] OTHER ->
         IF h.rows = <<>> THEN [h EXCEPT !.state = "resolved", !.records = <<>>]
         ELSE [h EXCEPT !.state = "resolved", !.records = tableWithHeaders(h.rows)]

\* the then() callback of helper h run on the element id of document d
Continuation(h, id, d) ==
  CASE h.call = "$click" ->
         IF IsHTMLElement(id)
         THEN [h EXCEPT !.state = "resolved", !.element = id, !.clicks = Append(@, id)]
         ELSE [h EXCEPT !.state = "rejected", !.error = Unclickable]
    [] h.call = "$text" ->
         [h EXCEPT !.state = "resolved", !.text = JsString(textContent(ElementOf(d, id).texts))]
    [] h.call = "$remove" -> [h EXCEPT !.state = "resolved"]
    [] h.call = "$table" -> [h EXCEPT !.state = "resolved", !.tableData = table(h.rows)]
    [] OTHER ->
         IF h.rows = <<>> THEN [h EXCEPT !.state = "rejected", !.error = NoFirstRow]
         ELSE [h EXCEPT !.state = "resolved", !.records = tableWithHeaders(h.rows)]

\* a helper that catches the rejection of $ and resolves
HelpAfterCatches(h, p, d) ==
  IF h.state # "pending" THEN h
  ELSE IF p.state = "rejected" THEN [h EXCEPT !.state = "resolved"]
  ELSE IF p.state = "resolved" THEN Continuation(h, p.value, d)
  ELSE h

\* the helper's promise once the promise p of $ has taken this step
HelpAfter(h, p, d) ==
  IF h.state # "pending" THEN h
  ELSE IF p.state = "rejected" THEN [h EXCEPT !.state = "rejected", !.error = p.error]
  ELSE IF p.state = "resolved" THEN Continuation(h, p.value, d)
  ELSE h

\* a removal that empties the parent of the element
DocAfterClears(h, p, d) ==
  IF h.state = "pending" /\ h.call = "$remove" /\ p.state = "resolved"
  THEN <<>>
  ELSE d

\* the document once the promise p of $ has taken this step: element.remove()
DocAfter(h, p, d) ==
  IF h.state = "pending" /\ h.call = "$remove" /\ p.state = "resolved"
  THEN RemoveElement(d, p.value)
  ELSE d

\* the functions declared in the factory
Functions == {"wait", "$click", "$text", "$remove", "$table", "$tableWithHeaders", "sleep", "$"}

\* a namespace object without sleep
psWithoutSleep ==
  [m \in {"$", "$click", "$remove", "$table", "$tableWithHeaders", "$text", "wait"} |-> m]

\* var ps = { $: $, $click: $click, ... }: member name to function
ps ==
  [m \in {"$", "$click", "$remove", "$table", "$tableWithHeaders", "$text", "sleep", "wait"}
     |-> m]

\* the helpers that chain on $
Helpers == {"$click", "$text", "$remove", "$table", "$tableWithHeaders"}

\* the options objects passed to a helper
HelpOptions ==
  {<<>>,
   <<[k |-> "timeout", v |-> Num(2)]>>,
   <<[k |-> "timeout", v |-> Num(2)], [k |-> "polling", v |-> Str("mutation")]>>,
   <<[k |-> "exactText", v |-> Str("a")]>>}

\* the row nodes under the elements of the document
HelpTables ==
  {<<>>,
   << <<Cell("th", <<Space, "a">>), Cell("th", <<"b">>)>>,
      <<Cell("td", <<"b">>)>> >>}

InitHelp ==
  /\ build \in Builds
  /\ phase = "idle"
  /\ userOptions = <<>>
  /\ options = <<>>
  /\ thrown = NoError
  /\ promise = NoPromise
  /\ results = <<>>
  /\ timeoutId = NoTimer
  /\ pollHandles = NoPoll
  /\ observer = "none"
  /\ uncaught = 0
  /\ now = 0
  /\ calledAt = -1
  /\ settledAt = -1
  /\ caller = "$"
  /\ doc \in InitialDocs
  /\ notified = FALSE
  /\ mutations = 0
  /\ heap = NoHeap
  /\ waits = NoWaits
  /\ timers = NoTimers
  /\ timeoutIdVar = NoTimeoutIds
  /\ twice = NoTwice
  /\ \E t \in HelpTables : help = [NoHelp EXCEPT !.rows = t]

\* helper(selector, options): ps.$ throws, and so does the helper
HelpCallThrows(name, o) ==
  /\ CallThrows(o)
  /\ help' = [help EXCEPT !.call = name, !.state = "threw"]
  /\ UNCHANGED <<domVars, twoVars>>

\* helper(selector, options): ps.$ returns its promise and then() chains the
\* callback, which runs at once when the promise is already settled
HelpCallReturns(name, o) ==
  /\ CallReturns(o, Locator(doc, o), Falsy)
  /\ help' = HelpAfter([help EXCEPT !.call = name, !.state = "pending"], promise', doc)
  /\ doc' = DocAfter([help EXCEPT !.call = name, !.state = "pending"], promise', doc)
  /\ UNCHANGED <<caller, notified, mutations, twoVars>>

\* the timeout of the wait under a helper fires
HelpTimeoutFires ==
  /\ TimeoutFires
  /\ help' = HelpAfter(help, promise', doc)
  /\ doc' = DocAfter(help, promise', doc)
  /\ UNCHANGED <<caller, notified, mutations, twoVars>>

\* poll() of the wait under a helper
HelpPoll(h) ==
  /\ Poll(h, Locator(doc, userOptions))
  /\ help' = HelpAfter(help, promise', doc)
  /\ doc' = DocAfter(help, promise', doc)
  /\ UNCHANGED <<caller, notified, mutations, twoVars>>

\* the observer's callback of the wait under a helper
HelpMutationCallback ==
  /\ notified
  /\ MutationCallback(Locator(doc, userOptions))
  /\ notified' = FALSE
  /\ help' = HelpAfter(help, promise', doc)
  /\ doc' = DocAfter(help, promise', doc)
  /\ UNCHANGED <<caller, mutations, twoVars>>

NextHelp ==
  \/ phase = "idle" /\ \E name \in Helpers : \E o \in HelpOptions : HelpCallThrows(name, o)
  \/ phase = "idle" /\ \E name \in Helpers : \E o \in HelpOptions : HelpCallReturns(name, o)
  \/ HelpTimeoutFires
  \/ pollHandles # {} /\ \E h \in pollHandles : HelpPoll(h)
  \/ HelpMutationCallback
  \/ \E d \in MutatedDocs(doc) : DomMutate(d)
  \/ UNCHANGED <<domVars, twoVars, helpVars>> /\ \E d \in {1, defaultOptions[1].v.n} : Tick(d)

SpecHelp == InitHelp /\ [][NextHelp]_vars

\* the callbacks of $table and $tableWithHeaders taken alone: every table
\* element of up to MaxRows row nodes is handed to them
InitTable ==
  /\ build \in Builds
  /\ phase = "idle"
  /\ userOptions = <<>>
  /\ options = <<>>
  /\ thrown = NoError
  /\ promise = NoPromise
  /\ results = <<>>
  /\ timeoutId = NoTimer
  /\ pollHandles = NoPoll
  /\ observer = "none"
  /\ uncaught = 0
  /\ now = 0
  /\ calledAt = -1
  /\ settledAt = -1
  /\ caller = "$"
  /\ doc = <<>>
  /\ notified = FALSE
  /\ mutations = 0
  /\ heap = NoHeap
  /\ waits = NoWaits
  /\ timers = NoTimers
  /\ timeoutIdVar = NoTimeoutIds
  /\ twice = NoTwice
  /\ \E t \in Tables : help = [NoHelp EXCEPT !.rows = t]

\* the then() callback of $table or $tableWithHeaders runs on the table
\* element
TableThen(name) ==
  /\ help.state = "none"
  /\ help' = Continuation([help EXCEPT !.call = name, !.state = "pending"], ElementIds[1], doc)
  /\ UNCHANGED <<waitVars, domVars, twoVars>>

NextTable ==
  \/ TableThen("$table")
  \/ TableThen("$tableWithHeaders")

SpecTable == InitTable /\ [][NextTable]_vars

----------------------------------------------------------------------------
(* Two locates in succession with one options object                       *)
(*                                                                         *)
(* RegExp.prototype.test keeps the place to search from in the lastIndex   *)
(* of a RegExp that has the flag g; the RegExp of options.matches is the   *)
(* same object in both calls.                                              *)

Global(re) == re.type = "regexp" /\ re.n = 1

\* the ends of the matches of re in t that start at from or later
MatchEnds(re, t, from) ==
  CASE re.s = "a" -> {i \in (from + 1)..Len(t) : t[i] = "a"}
    [] re.s = "^a$" -> IF t = <<"a">> /\ from = 0 THEN {1} ELSE {}
    [] OTHER -> IF t = <<>> /\ from = 0 THEN {0} ELSE {}

\* re.test(t) with re.lastIndex = li: the result and the lastIndex it leaves
RegExpTestAt(re, t, li) ==
  IF ~Global(re) THEN [found |-> RegExpTest(re, t), lastIndex |-> li]
  ELSE IF li > Len(t) \/ MatchEnds(re, t, li) = {} THEN [found |-> FALSE, lastIndex |-> 0]
  ELSE [found |-> TRUE,
        lastIndex |-> CHOOSE e \in MatchEnds(re, t, li) : \A f \in MatchEnds(re, t, li) : e <= f]

\* search(element, predicate) for the matches predicate, from text node j
RECURSIVE SearchAt(_, _, _, _)
SearchAt(texts, j, re, li) ==
  IF j > Len(texts) THEN [found |-> FALSE, lastIndex |-> li]
  ELSE IF texts[j] = NoText THEN SearchAt(texts, j + 1, re, li)
  ELSE IF RegExpTestAt(re, Trim(texts[j]), li).found THEN RegExpTestAt(re, Trim(texts[j]), li)
  ELSE SearchAt(texts, j + 1, re, RegExpTestAt(re, Trim(texts[j]), li).lastIndex)

\* the loop over the elements the selector matches, from element i
RECURSIVE LocateAt(_, _, _, _)
LocateAt(els, i, re, li) ==
  IF i > Len(els) THEN [result |-> Falsy, lastIndex |-> li]
  ELSE IF SearchAt(els[i].texts, 1, re, li).found
  THEN [result |-> els[i].id, lastIndex |-> SearchAt(els[i].texts, 1, re, li).lastIndex]
  ELSE LocateAt(els, i + 1, re, SearchAt(els[i].texts, 1, re, li).lastIndex)

\* one evaluation of the predicate $ hands to wait, with the lastIndex of
\* options.matches before it: the value returned and the lastIndex after
LocatorAt(d, o, li) ==
  IF Get(o, "matches").type = "regexp"
  THEN LocateAt(querySelectorAll(d), 1, Get(o, "matches"), li)
  ELSE [result |-> Locator(d, o), lastIndex |-> li]

\* the options objects passed to both locates
TwiceOptions ==
  {<<>>,
   <<[k |-> "exactText", v |-> Str("a")]>>,
   <<[k |-> "containsText", v |-> Str("a")]>>,
   <<[k |-> "matches", v |-> Re("a")]>>,
   <<[k |-> "matches", v |-> Re("^a$")]>>,
   <<[k |-> "matches", v |-> ReG("a")]>>,
   <<[k |-> "timeout", v |-> Num(2)], [k |-> "matches", v |-> ReG("a")]>>}

\* the documents of two locates: up to two elements, in document order
TwiceDocs ==
  InitialDocs
  \cup {<<e, f>> : e \in ElementsOf(ElementIds[1]), f \in ElementsOf(ElementIds[2])}

InitTwice ==
  /\ build \in Builds
  /\ phase = "idle"
  /\ userOptions = <<>>
  /\ options = <<>>
  /\ thrown = NoError
  /\ promise = NoPromise
  /\ results = <<>>
  /\ timeoutId = NoTimer
  /\ pollHandles = NoPoll
  /\ observer = "none"
  /\ uncaught = 0
  /\ now = 0
  /\ calledAt = -1
  /\ settledAt = -1
  /\ caller = "$"
  /\ doc \in TwiceDocs
  /\ notified = FALSE
  /\ mutations = 0
  /\ heap = NoHeap
  /\ waits = NoWaits
  /\ timers = NoTimers
  /\ timeoutIdVar = NoTimeoutIds
  /\ \E o \in TwiceOptions : twice = [NoTwice EXCEPT !.o = o]
  /\ help = NoHelp

\* what the actions of two locates in succession leave alone
onceVars == <<domVars, heap, waits, timers, timeoutIdVar, helpVars>>

\* $(selector, options): wait throws
TwiceCallThrows ==
  /\ CallThrows(twice.o)
  /\ UNCHANGED <<twice, onceVars>>

\* $(selector, options): the initial check and, when it finds nothing, the
\* first poll(), each evaluating the locator once
TwiceCallReturns ==
  LET e1 == LocatorAt(doc, twice.o, twice.lastIndex)
      e2 == LocatorAt(doc, twice.o, e1.lastIndex)
      polled == e1.result = Falsy /\ ~MutationMode(ObjectAssign(twice.o))
  IN /\ CallReturns(twice.o, e1.result, IF polled THEN e2.result ELSE Falsy)
     /\ twice' = [twice EXCEPT !.lastIndex = IF polled THEN e2.lastIndex ELSE e1.lastIndex]
     /\ UNCHANGED onceVars

\* poll() of the running locate
TwicePoll(h) ==
  /\ Poll(h, LocatorAt(doc, twice.o, twice.lastIndex).result)
  /\ twice' = [twice EXCEPT !.lastIndex = LocatorAt(doc, twice.o, twice.lastIndex).lastIndex]
  /\ UNCHANGED onceVars

\* the caller, having awaited the first locate, makes the second: the wait
\* of the second call is followed in place of the first
SecondCall ==
  /\ twice.call = 1
  /\ promise.state = "resolved"
  /\ twice' = [twice EXCEPT !.call = 2, !.first = promise]
  /\ phase' = "idle"
  /\ userOptions' = <<>>
  /\ options' = <<>>
  /\ thrown' = NoError
  /\ promise' = NoPromise
  /\ results' = <<>>
  /\ timeoutId' = NoTimer
  /\ pollHandles' = NoPoll
  /\ observer' = "none"
  /\ calledAt' = -1
  /\ settledAt' = -1
  /\ UNCHANGED <<build, uncaught, now, onceVars>>

NextTwice ==
  \/ TwiceCallThrows
  \/ TwiceCallReturns
  \/ TimeoutFires /\ UNCHANGED <<twice, onceVars>>
  \/ pollHandles # {} /\ \E h \in pollHandles : TwicePoll(h)
  \/ SecondCall
  \/ UNCHANGED <<twice, onceVars>> /\ \E d \in {1, defaultOptions[1].v.n} : Tick(d)

SpecTwice == InitTwice /\ [][NextTwice]_vars

----------------------------------------------------------------------------
(* One wait under fair scheduling                                          *)
(*                                                                         *)
(* The host runs every timer callback whose time has come and every        *)
(* animation-frame callback; it need not deliver a mutation notification.  *)
(* The clock moves to the next time at which a timer is due.  The          *)
(* predicate may yield anything up to its evaluation MaxEvals - 1 and is   *)
(* truthy from evaluation MaxEvals on.                                     *)

\* the options objects of a wait followed to its end
LiveOptions ==
  {t \o pl :
     t \in {<<>>, <<[k |-> "timeout", v |-> Num(0)]>>, <<[k |-> "timeout", v |-> Num(2)]>>},
     pl \in {<<>>, <<[k |-> "polling", v |-> Num(1)]>>,
             <<[k |-> "polling", v |-> Str("mutation")]>>}}

\* what evaluation number n of the predicate can yield
LiveOutcomes(n) == IF n >= MaxEvals THEN {"v1"} ELSE Outcomes

\* the times at which an armed timeout or a poll timer is due
DueTimes ==
  (IF timeoutId.state = "armed" THEN {timeoutId.at} ELSE {})
  \cup {h.at : h \in {x \in pollHandles : x.kind = "timeout"}}

\* what the actions of one wait leave alone
aloneVars == <<domVars, twoVars, helpVars>>

LiveCallThrows == phase = "idle" /\ UNCHANGED aloneVars /\ \E o \in LiveOptions : CallThrows(o)

LiveCallReturns ==
  /\ phase = "idle"
  /\ UNCHANGED aloneVars
  /\ \E o \in LiveOptions : \E r1 \in LiveOutcomes(1) : \E r2 \in LiveOutcomes(2) \cup {Falsy} :
       CallReturns(o, r1, r2)

LiveTimeoutFires == TimeoutFires /\ UNCHANGED aloneVars

LivePoll ==
  /\ pollHandles # {}
  /\ UNCHANGED aloneVars
  /\ \E h \in pollHandles : \E r \in LiveOutcomes(Len(results) + 1) : Poll(h, r)

LiveMutationCallback ==
  /\ observer = "connected"
  /\ UNCHANGED aloneVars
  /\ \E r \in LiveOutcomes(Len(results) + 1) : MutationCallback(r)

\* the clock moves to the next due time
Advance ==
  /\ \E t \in DueTimes :
       /\ t > now
       /\ \A u \in DueTimes : u > now => t <= u
       /\ now' = t
  /\ UNCHANGED <<build, phase, userOptions, options, thrown, promise, results,
                 timeoutId, pollHandles, observer, uncaught, calledAt, settledAt>>
  /\ UNCHANGED aloneVars

NextLive ==
  \/ LiveCallThrows
  \/ LiveCallReturns
  \/ LiveTimeoutFires
  \/ LivePoll
  \/ LiveMutationCallback
  \/ Advance

SpecLive ==
  /\ Init
  /\ [][NextLive]_vars
  /\ WF_vars(LiveTimeoutFires)
  /\ WF_vars(LivePoll)
  /\ WF_vars(Advance)

(***************************************************************************)
(* wait called with option values outside the documented types             *)
(*                                                                         *)
(* PsOptions documents timeout as a number and polling as "raf",           *)
(* "mutation" or a number; validateOptions tests neither, so a caller can  *)
(* pass any value for them.                                                *)
(***************************************************************************)

\* the options objects of such a call: timeout undefined, 0, -1, "a", "2"
\* or omitted, polling undefined, "a", 1, "mutation" or omitted
LooseOptions ==
  {t \o pl :
     t \in {<<>>} \cup {<<[k |-> "timeout", v |-> x]>> :
                          x \in {Undefined, Num(0), Num(-1), Str("a"), Str("2")}},
     pl \in {<<>>} \cup {<<[k |-> "polling", v |-> x]>> :
                           x \in {Undefined, Str("a"), Num(1), Str("mutation")}}}

NextLoose ==
  \/ phase = "idle" /\ UNCHANGED aloneVars /\ \E o \in LooseOptions : CallThrows(o)
  \/ phase = "idle" /\ UNCHANGED aloneVars
       /\ \E o \in LooseOptions : \E r1, r2 \in Outcomes : CallReturns(o, r1, r2)
  \/ TimeoutFires /\ UNCHANGED aloneVars
  \/ pollHandles # {} /\ UNCHANGED aloneVars
       /\ \E h \in pollHandles : \E r \in Outcomes : Poll(h, r)
  \/ observer = "connected" /\ UNCHANGED aloneVars
       /\ \E r \in Outcomes : MutationCallback(r)
  \/ UNCHANGED aloneVars /\ \E d \in {1, defaultOptions[1].v.n} : Tick(d)

SpecLoose == Init /\ [][NextLoose]_vars

----------------------------------------------------------------------------
(* Properties                                                              *)

Settled == promise.state \in {"resolved", "rejected"}
RejectedByTimeout == promise.state = "rejected" /\ promise.error.kind = "timeout"
AllFalsy == \A i \in 1..Len(results) : results[i] = Falsy
Last(seq) == seq[Len(seq)]

\* the caller's options are valid: every key is a recognised one, a matcher
\* has the right type, and there is at most one matcher
RightType(e) ==
  /\ e.k \in {"exactText", "containsText"} => e.v.type = "string"
  /\ e.k = "matches" => e.v.type = "regexp"
ValidCallerOptions(o) ==
  /\ \A i \in 1..Len(o) : IndexOf(validKeys, o[i].k) >= 0 /\ RightType(o[i])
  /\ Cardinality({i \in 1..Len(o) : IndexOf(textOptions, o[i].k) >= 0}) <= 1

\* C1: once the wait has settled, no handle it created is still active: the
\* timeout timer is not armed, no poll timer or animation-frame callback is
\* scheduled, no mutation observer is connected.
C1_HandlesReleasedOnSettlement ==
  Settled =>
    /\ timeoutId.state # "armed"
    /\ pollHandles = {}
    /\ observer # "connected"

\* C2: for timeout > 0 and a predicate that never becomes truthy, once the
\* timeout has rejected the wait the predicate is not evaluated again.
C2_NoEvaluationAfterTimeout ==
  [][(RejectedByTimeout /\ AllFalsy) => results' = results]_vars

\* C3: for every valid option set, a predicate that is truthy on the first
\* synchronous evaluation makes wait resolve with that value after exactly
\* one evaluation, with no timeout timer, poll handle or observer created.
C3_FastPath ==
  (phase # "idle" /\ ValidCallerOptions(userOptions)) =>
    /\ phase = "returned"
    /\ results[1] \in Truthy =>
         /\ promise = [state |-> "resolved", value |-> results[1], error |-> NoError]
         /\ Len(results) = 1
         /\ timeoutId = NoTimer /\ pollHandles = NoPoll /\ observer = "none"

\* C4: for timeout > 0 and a predicate that is never truthy, the wait is a
\* promise that never resolves and that is rejected only by the timeout, not
\* before timeout milliseconds have passed since the call, with a failure
\* that carries the configured timeout.
C4_TimeoutRejection ==
  (/\ phase # "idle"
   /\ ValidCallerOptions(userOptions)
   /\ TimeoutWanted(ObjectAssign(userOptions))
   /\ AllFalsy) =>
    /\ phase = "returned"
    /\ promise.state # "resolved"
    /\ promise.state = "rejected" =>
         /\ promise.error.kind = "timeout"
         /\ promise.error.ms = Get(ObjectAssign(userOptions), "timeout").n
         /\ settledAt >= calledAt + promise.error.ms

C6_ThrowingPredicateRejects ==
  \A i \in 1..Len(results) :
    results[i] = Throws =>
      /\ promise.state = "rejected"
      /\ promise.error = PredicateError
      /\ i = Len(results)

\* C7: a wait that returned is pending, resolved or rejected, and once it is
\* resolved or rejected its outcome and value never change.
C7_SettlementIsFinal ==
  /\ [](phase = "returned" <=> promise.state \in {"pending", "resolved", "rejected"})
  /\ [](promise.state = "resolved" <=> promise.value # "")
  /\ [](promise.state = "rejected" <=> promise.error # NoError)
  /\ [][Settled => promise' = promise]_vars

\* C7 witness: the timeout rejected the wait and a later poll or observer
\* check was truthy; the wait is still rejected by the timeout.
C7_Witness ==
  /\ RejectedByTimeout
  /\ timeoutId.state = "fired"
  /\ Len(results) >= 3
  /\ Last(results) \in Truthy

\* C8: validation succeeds for every valid options value, absent or empty
\* options included, and wait goes on to evaluate the predicate.
C8_ValidOptionsAccepted ==
  (phase # "idle" /\ ValidCallerOptions(userOptions)) =>
    /\ phase = "returned"
    /\ thrown = NoError
    /\ Len(results) >= 1

\* C9: options holding an unrecognised key (and otherwise valid) make
\* validation fail with the unknown-option error naming that key.
C9_UnknownKeyNamed ==
  (/\ phase # "idle"
   /\ \E i \in 1..Len(userOptions) :
        /\ IndexOf(validKeys, userOptions[i].k) < 0
        /\ ValidCallerOptions(SubSeq(userOptions, 1, i - 1))) =>
    /\ phase = "threw"
    /\ thrown.kind = "invalid-option"
    /\ IndexOf(validKeys, thrown.key) < 0
    /\ HasKey(userOptions, thrown.key)

\* C10: exactText or containsText holding a non-string, or matches holding a
\* value that is not a regular expression (the options being otherwise
\* valid, with no other matcher), makes validation fail with a type error
\* naming that key.
C10_MatcherTypeError ==
  (/\ phase # "idle"
   /\ \E i \in 1..Len(userOptions) :
        /\ ~RightType(userOptions[i])
        /\ \A j \in 1..Len(userOptions) :
             j # i => userOptions[j].k \in {"timeout", "polling"}) =>
    /\ phase = "threw"
    /\ thrown.name = "TypeError"
    /\ HasKey(userOptions, thrown.key)
    /\ ~RightType([k |-> thrown.key, v |-> Get(userOptions, thrown.key)])

\* the matcher keys the caller's options hold
MatcherKeys(o) == {i \in 1..Len(o) : IndexOf(textOptions, o[i].k) >= 0}

\* C11: options holding two or three of exactText, containsText, matches
\* (each of the right type, in any order) make validation fail with the
\* conflicting-matcher error.
C11_ConflictingMatchers ==
  (/\ phase # "idle"
   /\ Cardinality(MatcherKeys(userOptions)) >= 2
   /\ \A i \in 1..Len(userOptions) :
        IndexOf(validKeys, userOptions[i].k) >= 0 /\ RightType(userOptions[i])) =>
    /\ phase = "threw"
    /\ thrown = Conflict

C14_MutationModeOnlyObserver ==
  /\ []((phase = "returned" /\ Get(options, "polling") = Str("mutation")) =>
          /\ pollHandles = {}
          /\ results = <<Falsy>> =>
               /\ observer = "connected"
               /\ promise.state = "pending" \/ RejectedByTimeout)
  /\ [][(phase = "returned" /\ Get(options, "polling") = Str("mutation")
           /\ results' # results) =>
          /\ observer = "connected"
          /\ Len(results') = Len(results) + 1
          /\ SubSeq(results', 1, Len(results)) = results]_vars
  /\ [][(phase = "returned" /\ Get(options, "polling") = Str("mutation")
           /\ promise.state = "pending" /\ promise'.state = "resolved") =>
          /\ observer = "connected"
          /\ Len(results') = Len(results) + 1
          /\ Last(results') \in Truthy
          /\ promise'.value = Last(results')]_vars

\* C14 witness: a mutation-mode wait resolved in its second notification.
C14_Witness ==
  /\ phase = "returned"
  /\ Get(options, "polling") = Str("mutation")
  /\ Len(results) = 3
  /\ results[1] = Falsy /\ results[2] = Falsy
  /\ promise.state = "resolved"
  /\ observer = "disconnected"

C16_ResolvesWithTriggeringValue ==
  promise.state = "resolved" =>
    /\ Len(results) >= 1
    /\ promise.value = Last(results)
    /\ promise.value \in Truthy
    /\ \A i \in 1..(Len(results) - 1) : results[i] \notin Truthy

\* C16 witness: a wait resolved with the value of its third evaluation.
C16_Witness ==
  /\ promise.state = "resolved"
  /\ Len(results) >= 3
  /\ promise.value = "v2"
  /\ results[Len(results)] = "v2"

\* C20: at most one poll callback is outstanding, never together with a
\* connected observer, and a poll callback is outstanding only after an
\* evaluation that returned falsy.
C20_OnePollingHandle ==
  /\ Cardinality(pollHandles) <= 1
  /\ ~(pollHandles # {} /\ observer = "connected")
  /\ pollHandles # {} => (Len(results) >= 2 /\ Last(results) = Falsy)

\* C20 witness: a polling wait between its third and fourth evaluation.
C20_Witness ==
  /\ Cardinality(pollHandles) = 1
  /\ Len(results) = 3
  /\ promise.state = "pending"

\* the caller's options hold no matcher
NoMatcher(o) == MatcherKeys(o) = {}

\* the wait became resolved in this step
Resolves == promise.state # "resolved" /\ promise'.state = "resolved"

\* C17: locate without a text-matching option returns a promise; it
\* resolves to the first element in document order that the selector
\* matches at the resolving check, never to a falsy value; until then it
\* keeps a timeout and a poll callback or observer, and it is rejected only
\* by the timeout.
C17_LocateFirstMatch ==
  /\ []((caller = "$" /\ phase # "idle" /\ NoMatcher(userOptions)) =>
          /\ phase = "returned"
          /\ promise.state = "resolved" => promise.value \in DocIds(doc) \/ mutations > 0
          /\ promise.state = "rejected" => RejectedByTimeout
          /\ promise.state = "pending" =>
               /\ timeoutId.state = "armed"
               /\ pollHandles # {} \/ observer = "connected")
  /\ [][(caller = "$" /\ NoMatcher(userOptions') /\ Resolves) =>
          /\ querySelectorAll(doc) # <<>>
          /\ promise'.value = Head(querySelectorAll(doc)).id]_vars

\* the element has a direct child text node, not empty, that satisfies the
\* matcher of o: exactText equals the trimmed text, containsText occurs in
\* the text, matches tests true on the trimmed text
Qualifies(o, element) ==
  \E j \in 1..Len(element.texts) :
    LET text == element.texts[j]
    IN /\ text # NoText
       /\ \/ HasKey(o, "exactText") /\ Trim(text) = Chars(Get(o, "exactText").s)
          \/ HasKey(o, "containsText")
               /\ StringIndexOf(text, Chars(Get(o, "containsText").s)) > -1
          \/ HasKey(o, "matches") /\ RegExpTest(Get(o, "matches"), Trim(text))

\* the elements the selector matches that qualify, in document order
Qualifying(o, d) == SelectSeq(d, LAMBDA e : e.sel /\ Qualifies(o, e))

\* C18: locate with a text-matching option returns a promise; it resolves
\* to the first element in document order, among those the selector
\* matches, that has a qualifying direct child text node, and it resolves
\* at the first check at which such an element exists.
C18_LocateByText ==
  /\ []((caller = "$" /\ phase # "idle" /\ ~NoMatcher(userOptions)) =>
          /\ phase = "returned"
          /\ promise.state = "rejected" => RejectedByTimeout)
  /\ [][(caller = "$" /\ ~NoMatcher(userOptions') /\ Resolves) =>
          /\ Qualifying(userOptions', doc) # <<>>
          /\ promise'.value = Head(Qualifying(userOptions', doc)).id]_vars
  /\ [][(caller = "$" /\ ~NoMatcher(userOptions') /\ results' # results
           /\ Qualifying(userOptions', doc) # <<>> /\ promise.state # "rejected") =>
          promise'.state = "resolved"]_vars

\* the value the merged record must hold for key k when the caller passed o
Expected(o, k) == IF HasKey(o, k) THEN Get(o, k) ELSE Get(defaultOptions, k)

\* C13: wait mutates neither the caller's options object nor the shared
\* defaults.  At every moment the defaults are timeout 10000 and polling
\* "raf" and each caller's object is as it was passed; a call that has run
\* holds a record of its own, distinct from both, in which an omitted
\* timeout or polling has the default value, every field the caller passed
\* has the caller's value, and there is no other field.  This holds for the
\* later of two calls as for the earlier.
C13_OptionsMergedIntoFreshRecord ==
  /\ heap[DefaultsRef] = <<[k |-> "timeout", v |-> Num(10000)], [k |-> "polling", v |-> Str("raf")]>>
  /\ \A i \in WaitIds :
       /\ heap[CallerRef(i)] = waits[i].given
       /\ waits[i].phase # "idle" =>
            /\ waits[i].options \notin {DefaultsRef, CallerRef(i)}
            /\ \A j \in WaitIds : j # i => waits[j].options # waits[i].options
            /\ \A k \in {"timeout", "polling"} \cup Keys(waits[i].given) :
                 /\ HasKey(heap[waits[i].options], k)
                 /\ Get(heap[waits[i].options], k) = Expected(waits[i].given, k)
            /\ Keys(heap[waits[i].options]) = {"timeout", "polling"} \cup Keys(waits[i].given)

\* both calls have run, the earlier one overrode timeout and polling, the
\* later one left them out
C13_Witness ==
  /\ waits["A"].phase # "idle" /\ waits["B"].phase # "idle"
  /\ HasKey(waits["A"].given, "timeout") /\ HasKey(waits["A"].given, "polling")
  /\ waits["B"].given = <<>>
  /\ Get(heap[waits["A"].options], "timeout") = Num(2)
  /\ Get(heap[waits["B"].options], "timeout") = Num(10000)

\* the state that belongs to call i changes in this step: its promise,
\* results, poll callbacks, observer, options reference, its timer, its
\* timeoutId variable, its caller's object or its merged record
Changed(i) ==
  \/ waits'[i] # waits[i]
  \/ timers'[i] # timers[i]
  \/ timeoutIdVar'[i] # timeoutIdVar[i]
  \/ heap'[CallerRef(i)] # heap[CallerRef(i)]
  \/ heap'[MergedRef(i)] # heap[MergedRef(i)]

\* C19: two waits in flight do not touch each other.  No step of one call
\* (its call, a poll, an observer callback, its timeout, whether or not the
\* step settles it) changes the timer, poll callbacks, observer, options or
\* outcome of the other, and the outcome of a settled call stays as it is
\* whatever the other call does.
C19_WaitsIndependent ==
  [][/\ ~(Changed("A") /\ Changed("B"))
     /\ \A i \in WaitIds :
          waits[i].promise.state \in {"resolved", "rejected"} =>
            waits'[i].promise = waits[i].promise]_vars

\* one call has resolved and cleared its timer while the other, called
\* before that, is still pending with its timer armed and its observer
\* connected
C19_Witness ==
  /\ waits["A"].promise.state = "resolved"
  /\ Len(waits["A"].results) > 2
  /\ timers["A"].state = "cleared"
  /\ waits["B"].promise.state = "pending"
  /\ timers["B"].state = "armed"
  /\ waits["B"].observer = "connected"
  /\ Len(waits["B"].results) > 1

HelpSettles == help.state \in {"none", "pending"} /\ help'.state \in {"resolved", "rejected"}

HeaderCells(rows) == SelectSeq(rows[1], LAMBDA c : c.tag = "th")
DataCells(row) == SelectSeq(row, LAMBDA c : c.tag = "td")

\* what the claim gives header i in the mapping of a row: the trimmed text of
\* the i-th data cell, or the absent value when there is no such cell
Zipped(row, i) ==
  IF i <= Len(DataCells(row)) THEN JsString(Trim(DataCells(row)[i].text)) ELSE JsUndefined

\* C23: when $tableWithHeaders returns, it returns one mapping for each row
\* after the first, in document order, and in the mapping of a row the
\* trimmed text of the i-th header cell of the first row maps to the
\* trimmed text of the i-th data cell of that row, or to the absent value
\* when the row has fewer data cells.
C23_RowsZippedWithHeaders ==
  (help.call = "$tableWithHeaders" /\ help.state = "resolved") =>
    /\ Len(help.records) = Len(help.rows) - 1
    /\ \A r \in 1..Len(help.records) :
         \A i \in 1..Len(HeaderCells(help.rows)) :
           /\ Trim(HeaderCells(help.rows)[i].text) \in DOMAIN help.records[r]
           /\ help.records[r][Trim(HeaderCells(help.rows)[i].text)] = Zipped(help.rows[r + 1], i)

\* C24: $table returns one sequence for each row node, in document order,
\* holding the trimmed text of the cells of that row in document order, and
\* all the sequences have the same length.
C24_TableRectangular ==
  (help.call = "$table" /\ help.state = "resolved") =>
    /\ Len(help.tableData) = Len(help.rows)
    /\ \A r \in 1..Len(help.rows) :
         /\ Len(help.tableData[r]) = Len(help.rows[r])
         /\ \A j \in 1..Len(help.rows[r]) :
              help.tableData[r][j] = JsString(Trim(help.rows[r][j].text))
    /\ \A r, q \in 1..Len(help.tableData) : Len(help.tableData[r]) = Len(help.tableData[q])

\* C25: $remove resolves in the step in which the element that $ returned
\* is detached: after that step the element is not in the document, every
\* other element is still there in its place, and no other step of the
\* helper changes the document (the page's own changes apart).
C25_RemoveDetachesLocated ==
  [][help'.call = "$remove" =>
       /\ (help.state # "resolved" /\ help'.state = "resolved") =>
            /\ Resolves
            /\ promise'.value \in DocIds(doc)
            /\ promise'.value \notin DocIds(doc')
            /\ doc' = SelectSeq(doc, LAMBDA e : e.id # promise'.value)
       /\ ~(help.state # "resolved" /\ help'.state = "resolved") =>
            doc' = doc \/ mutations' = mutations + 1]_vars

\* $remove resolved after the page inserted a second element: the located
\* element is gone and the other one is still in the document
C25_Witness ==
  /\ help.call = "$remove"
  /\ help.state = "resolved"
  /\ mutations > 0
  /\ Len(doc) = 1
  /\ promise.value \notin DocIds(doc)
  /\ Len(results) > 1

C26_LocateTwiceSameElement ==
  (twice.call = 2 /\ phase # "idle" /\ promise.state # "pending") =>
    /\ phase = "returned"
    /\ promise.state = "resolved"
    /\ promise.value = twice.first.value

\* C28: a truthy re-evaluation (in poll() or in the observer's callback) of
\* a wait that has not settled resolves it with that value and, in the same
\* step, leaves the timeout timer not armed, the observer not connected and
\* no poll callback scheduled; once the wait is resolved the predicate is
\* not evaluated again and the timeout does not fire.
C28_SuccessReleasesEverything ==
  /\ [][(Len(results') > 1 /\ results' # results /\ Last(results') \in Truthy
           /\ promise.state \in {"none", "pending"}) =>
          /\ promise'.state = "resolved"
          /\ promise'.value = Last(results')
          /\ timeoutId'.state # "armed"
          /\ observer' # "connected"
          /\ pollHandles' = {}]_vars
  /\ [][promise.state = "resolved" =>
          /\ results' = results
          /\ timeoutId' = timeoutId
          /\ promise' = promise]_vars

\* a wait resolved by its observer's callback, the timer cancelled before
\* its time, and the clock then moved past the timeout
C28_Witness ==
  /\ caller = "wait"
  /\ promise.state = "resolved"
  /\ observer = "disconnected"
  /\ timeoutId.state = "cleared"
  /\ now > timeoutId.at
  /\ Len(results) > 1

\* C29: a wait with timeout 0 in per-frame or fixed-interval mode whose
\* predicate is truthy from some evaluation on does not stay pending for
\* ever: under fair scheduling of frames and timers it settles.
C29_ZeroTimeoutEventuallyResolves ==
  [](( /\ phase = "returned"
       /\ Get(options, "timeout") = Num(0)
       /\ Get(options, "polling") # Str("mutation") )
     => <>(promise.state # "pending"))

\* C30: a wait called with valid options and a timeout greater than 0
\* settles in the end (it resolves or it rejects), whatever the predicate
\* yields afterwards and whether or not a mutation is ever notified.
C30_PositiveTimeoutSettles ==
  [](( /\ phase # "idle"
       /\ ValidCallerOptions(userOptions)
       /\ Get(options, "timeout").type = "number"
       /\ Get(options, "timeout").n > 0 )
     => <>(phase = "returned" /\ promise.state \in {"resolved", "rejected"}))

\* the helper has touched no element: no click() ran, no text and no table
\* was read
NothingDone ==
  /\ help.clicks = <<>>
  /\ help.text = JsUndefined
  /\ help.tableData = <<>>
  /\ help.records = <<>>

\* C31: a helper acts on the document only once $ has resolved.  While $
\* is pending, and for ever after the timeout has rejected it, the helper
\* has clicked, read and removed nothing; a timeout rejection of $ rejects
\* the helper with the same error; the helper resolves only after $ did.
C31_HelperActsOnlyAfterLocate ==
  /\ [](help.call # "none" =>
          /\ promise.state # "resolved" => NothingDone /\ help.state # "resolved"
          /\ RejectedByTimeout => help.state = "rejected" /\ help.error = promise.error)
  /\ [][(help'.call # "none" /\ promise'.state # "resolved") =>
          doc' = doc \/ mutations' = mutations + 1]_vars

\* $click was rejected by the timeout of $; a poll that was still scheduled
\* then found the element the page had inserted, and nothing was clicked
C31_Witness ==
  /\ help.call = "$click"
  /\ RejectedByTimeout
  /\ help.state = "rejected" /\ help.error.kind = "timeout"
  /\ Len(results) > 2 /\ Last(results) = "e1"
  /\ help.clicks = <<>>

\* C32: in per-frame or fixed-interval mode, a call whose initial check is
\* falsy returns with two evaluations made (the check and the first poll()),
\* both before any callback has run.  When the second one is truthy the
\* wait is resolved with it in the call, no poll callback is scheduled then
\* or later, no further evaluation is made, and the timeout timer, armed
\* when options.timeout > 0, has been cancelled and never fires.
C32_FirstPollSynchronous ==
  /\ [][(/\ phase = "idle" /\ phase' = "returned"
          /\ results'[1] = Falsy
          /\ Get(options', "polling") # Str("mutation")) =>
          /\ Len(results') = 2
          /\ results'[2] \in Truthy =>
               /\ promise' = [state |-> "resolved", value |-> results'[2], error |-> NoError]
               /\ settledAt' = calledAt'
               /\ pollHandles' = {}
               /\ timeoutId' = IF Get(options', "timeout").type = "number"
                                   /\ Get(options', "timeout").n > 0
                               THEN [state |-> "cleared",
                                     at |-> calledAt' + Get(options', "timeout").n]
                               ELSE NoTimer]_vars
  /\ []((/\ phase = "returned"
          /\ Get(options, "polling") # Str("mutation")
          /\ results[1] = Falsy) =>
          /\ Len(results) >= 2
          /\ results[2] \in Truthy =>
               /\ results = <<Falsy, promise.value>>
               /\ promise.state = "resolved"
               /\ pollHandles = {}
               /\ timeoutId.state \in {"unset", "cleared"})

\* a fixed-interval wait with a timeout, resolved inside the call by its
\* first poll(); the interval and the timeout have since gone by
C32_Witness ==
  /\ phase = "returned"
  /\ Get(options, "polling") = Num(1)
  /\ results = <<Falsy, "v1">>
  /\ promise.state = "resolved" /\ promise.value = "v1"
  /\ timeoutId = [state |-> "cleared", at |-> calledAt + 2]
  /\ pollHandles = {}
  /\ now >= timeoutId.at

\* the identities of the nodes of d the selector matches
MatchSet(d) == {d[i].id : i \in {j \in 1..Len(d) : d[j].sel}}

\* C33: with or without a text matcher, the step in which $ resolves
\* resolves it to an element the selector matches in the document as it is
\* at that step, never to a node outside the selector's match set.
C33_ResolvesWithinMatchSet ==
  [][(caller = "$" /\ promise.state # "resolved" /\ promise'.state = "resolved") =>
       /\ doc' = doc
       /\ promise'.value \in MatchSet(doc)]_vars

\* $ with exactText resolved to the second element although the first
\* element, which the selector does not match, holds the text asked for
C33_Witness ==
  /\ caller = "$"
  /\ HasKey(userOptions, "exactText")
  /\ promise.state = "resolved" /\ promise.value = ElementIds[2]
  /\ Len(doc) = 2
  /\ ~doc[1].sel /\ Trim(doc[1].texts[1]) = <<"a">>
  /\ MatchSet(doc) = {ElementIds[2]}

\* o holds one matcher option and its value is falsy
FalsyMatcher(o) ==
  /\ Cardinality(MatcherKeys(o)) = 1
  /\ \A i \in MatcherKeys(o) : ~IsTruthy(o[i].v)

\* o without its matcher options
WithoutMatcher(o) == SelectSeq(o, LAMBDA e : IndexOf(textOptions, e.k) < 0)

\* C34: locate with exactText "" or containsText "" is locate without a
\* matcher: the call returns a promise, every check yields what the check
\* of the same call without the matcher option yields, and the promise
\* resolves to the first element the selector matches at the resolving
\* check, whatever text it holds; it is rejected only by the timeout.
C34_FalsyMatcherIsNoMatcher ==
  /\ []((caller = "$" /\ phase # "idle" /\ FalsyMatcher(userOptions)) =>
          /\ phase = "returned"
          /\ promise.state = "rejected" => RejectedByTimeout)
  /\ [][(caller = "$" /\ FalsyMatcher(userOptions') /\ results' # results) =>
          Last(results') = Locator(doc, WithoutMatcher(userOptions'))]_vars
  /\ [][(caller = "$" /\ FalsyMatcher(userOptions') /\ Resolves) =>
          /\ querySelectorAll(doc) # <<>>
          /\ promise'.value = Head(querySelectorAll(doc)).id]_vars

\* o holds a timeout that is not a number greater than 0
NonPositiveTimeout(o) ==
  /\ HasKey(o, "timeout")
  /\ ~(Get(o, "timeout").type = "number" /\ Get(o, "timeout").n > 0)

\* C35: a call of wait whose timeout is 0, negative or not a number is
\* accepted and runs like a wait with timeout 0: the call returns a
\* promise, no timeout timer is ever armed, and the promise is never
\* rejected by a timeout.
C35_NonPositiveTimeoutIsNone ==
  (phase # "idle" /\ NonPositiveTimeout(userOptions)) =>
    /\ phase = "returned"
    /\ Get(options, "timeout") = Get(userOptions, "timeout")
    /\ timeoutId = NoTimer
    /\ ~RejectedByTimeout

\* o holds a polling that is neither "mutation" nor a number
OtherPolling(o) ==
  /\ HasKey(o, "polling")
  /\ Get(o, "polling") # Str("mutation")
  /\ Get(o, "polling").type # "number"

\* C36: a call of wait whose polling is neither "mutation" nor a number is
\* accepted and polls per animation frame as the default does: the call
\* returns a promise, no observer is ever attached, no poll timer is ever
\* set, and every falsy evaluation leaves exactly one animation-frame
\* callback scheduled.
C36_OtherPollingIsPerFrame ==
  /\ []((phase # "idle" /\ OtherPolling(userOptions)) =>
          /\ phase = "returned"
          /\ Get(options, "polling") = Get(userOptions, "polling")
          /\ observer = "none"
          /\ \A h \in pollHandles : h.kind = "raf")
  /\ [][(/\ phase' = "returned"
          /\ OtherPolling(userOptions')
          /\ results' # results
          /\ Last(results') = Falsy) =>
          pollHandles' = {[kind |-> "raf", at |-> now]}]_vars

\* C37: the callback of $tableWithHeaders run on an element without any
\* row rejects the helper's promise with the TypeError of reading the
\* header cells of rows[0], which is undefined, and yields no list; run on
\* an element with exactly one row, whatever its cells, it resolves to the
\* empty list.
C37_NoRowRejectsOneRowEmpty ==
  (help.call = "$tableWithHeaders" /\ help.state \notin {"none", "pending"}) =>
    /\ Len(help.rows) = 0 =>
         /\ help.state = "rejected"
         /\ help.error.name = "TypeError" /\ help.error = NoFirstRow
         /\ help.records = <<>>
    /\ Len(help.rows) = 1 =>
         /\ help.state = "resolved"
         /\ help.error = NoError
         /\ help.records = <<>>

\* $tableWithHeaders was rejected on an element that holds no row
C37_Witness ==
  /\ help.call = "$tableWithHeaders"
  /\ help.rows = <<>>
  /\ help.state = "rejected"
  /\ help.error = NoFirstRow

====
